---- MODULE Spec2Model ----
(***************************************************************************)
(* Model of the redis job broker of cozy-stack (pkg/jobs/redis_broker.go). *)
(*                                                                         *)
(* Go strings are modelled as sequences of one-character strings, so that  *)
(* key construction, length checks and strings.SplitN are computed as the  *)
(* code computes them.                                                     *)
(*                                                                         *)
(* Threads of the model:                                                   *)
(*   - one lifecycle caller (ctl) issuing StartWorkers / ShutdownWorkers   *)
(*     one call at a time (b.workers is not synchronised; the lifecycle    *)
(*     calls of one broker are issued sequentially);                       *)
(*   - the callers of PushJob;                                             *)
(*   - one caller of WorkerQueueLen, a call being two store commands;      *)
(*   - one poll loop per `go b.pollLoop(...)`;                             *)
(*   - the environment: worker pools receiving on their feed channel, the  *)
(*     shutdown context expiring, another process pushing raw payloads on  *)
(*     the shared queues.                                                  *)
(*                                                                         *)
(* Spec is the broker under every sequence of lifecycle calls; RunSpec is  *)
(* the broker started once and left Running, under the fairness of its     *)
(* poll loop, store and pool; TwinSpec is the broker with two poll loops   *)
(* on the same lanes; StopSpec is the broker started once and shut down    *)
(* once, under the fairness of its threads; LaneSpec is the Running broker *)
(* whose lanes are refilled by other processes, under fair draws; LenSpec  *)
(* is the broker started once and shut down once beside a caller of        *)
(* WorkerQueueLen.                                                         *)
(***************************************************************************)
EXTENDS Integers, Sequences, FiniteSets, TLC

\* ---------------------------------------------------------------- bounds
MaxCalls == 4        \* lifecycle calls (StartWorkers + ShutdownWorkers)
MaxPushCalls == 1    \* PushJob calls in Spec
MaxRunPushCalls == 2 \* PushJob calls in RunSpec
MaxLaneLen == 2      \* length up to which another process refills a lane

\* ------------------------------------------------------------- constants
redisPrefix == <<"j", "/">>
redisHighPrioritySuffix == <<"/", "p", "0">>

\* ---------------------------------------------------------------- inputs
WT == <<"t">>        \* a worker type declared with concurrency 1
WU == <<"u">>        \* a worker type declared with concurrency 0
WX == <<"x">>        \* a worker type that is never declared
DomA == <<"a">>

ConfT == [WorkerType |-> WT, Concurrency |-> 1]
ConfU == [WorkerType |-> WU, Concurrency |-> 0]

WorkersLists == { <<ConfU, ConfT>>, <<ConfU>> }

\* a list that declares the same worker type twice: two pools, two poll
\* loops on the same lanes
TwinList == <<ConfT, ConfT>>

Requests ==
    { [WorkerType |-> WT, Domain |-> DomA, Manual |-> FALSE],
      [WorkerType |-> WT, Domain |-> DomA, Manual |-> TRUE],
      [WorkerType |-> WU, Domain |-> DomA, Manual |-> FALSE],
      [WorkerType |-> WX, Domain |-> DomA, Manual |-> FALSE] }

\* the requests for the polled worker type
RunRequests == { r \in Requests : r.WorkerType = WT }

\* payloads another process may push: no "/", and an unknown (domain, id)
RawPayloads == { <<"n">>, <<"a", "/", "9">> }

\* the payload other processes keep pushing on the lanes of WT
RefillPayloads == { <<"n">> }

Digits == <<"1", "2", "3", "4", "5", "6", "7", "8", "9">>

\* the PushJob callers: one in Spec, two concurrent ones in RunSpec
Pushers == {1}
RunPushers == {1, 2}

\* ------------------------------------------------------- pure operators
IsInArrayBad(s, arr) == TRUE

\* utils.IsInArray
IsInArray(s, arr) == \E k \in 1..Len(arr) : arr[k] = s

QueueKeyBad(workerType, manual) == redisPrefix \o workerType

QueueKey(workerType, manual) ==
    IF manual THEN redisPrefix \o workerType \o redisHighPrioritySuffix
              ELSE redisPrefix \o workerType

PayloadBad(job) == job.JobID \o <<"/">> \o job.Domain

Payload(job) == job.Domain \o <<"/">> \o job.JobID

\* strings.SplitN(val, "/", 2)
SplitN2(val) ==
    IF \E k \in 1..Len(val) : val[k] = "/"
    THEN LET idx == CHOOSE k \in 1..Len(val) :
                        /\ val[k] = "/"
                        /\ \A m \in 1..(k - 1) : val[m] # "/"
         IN  <<SubSeq(val, 1, idx - 1), SubSeq(val, idx + 1, Len(val))>>
    ELSE <<val>>

NoJob == [JobID |-> <<>>, Domain |-> <<>>, WorkerType |-> <<>>, Manual |-> FALSE]

\* NewJob(req) followed by the id assignment of job.Create
NewJob(req, n) ==
    [JobID |-> <<Digits[n]>>, Domain |-> req.Domain,
     WorkerType |-> req.WorkerType, Manual |-> req.Manual]

\* Get(domain, jobID) on the job store `store`
GetFound(store, domain, jobID) ==
    \E j \in store : j.Domain = domain /\ j.JobID = jobID

Get(store, domain, jobID) ==
    IF GetFound(store, domain, jobID)
    THEN CHOOSE j \in store : j.Domain = domain /\ j.JobID = jobID
    ELSE NoJob

AllKeys == { QueueKey(t, m) : t \in {WT, WU, WX}, m \in BOOLEAN }

\* ----------------------------------------------------------------- state
VARIABLES
    running,       \* b.running
    workers,       \* b.workers: sequence of pools
    workersTypes,  \* b.workersTypes
    loops,         \* the pollLoop goroutines, in spawn order
    queues,        \* the redis lists, head of the sequence = left end
    jobs,          \* the persisted jobs
    nextID,        \* next job id given by job.Create
    clientClosed,  \* number of client.Close() calls
    ctl,           \* the lifecycle caller
    ctxDone,       \* ctx.Done() of the current ShutdownWorkers call is closed
    pushers,       \* the PushJob callers
    delivered,     \* per pool: what was received on its feed channel
    lenCall,       \* the caller of WorkerQueueLen
    hist           \* history of the run

vars == <<running, workers, workersTypes, loops, queues, jobs, nextID,
          clientClosed, ctl, ctxDone, pushers, delivered, lenCall, hist>>

NoReq == [WorkerType |-> <<>>, Domain |-> <<>>, Manual |-> FALSE]

\* a PushJob caller: pc, the request and job of the call in progress, and
\* the value returned by its last call
IdlePusher ==
    [pc |-> "idle", req |-> NoReq, job |-> NoJob, ret |-> "none"]

Return(p, r) == [IdlePusher EXCEPT !.ret = r]

\* the WorkerQueueLen caller between two calls: t is the worker type asked
\* for, l1 the result of the first LLen, n and ret what the last call
\* returned; lanes is the content of the two lanes at the first LLen and
\* quiet tells that they were the same at the second
IdleLenCall ==
    [pc |-> "idle", t |-> <<>>, l1 |-> 0, n |-> 0, ret |-> "none",
     lanes |-> <<>>, quiet |-> FALSE]

InitWith(callers) ==
    /\ running = 0
    /\ workers = <<>>
    /\ workersTypes = <<>>
    /\ loops = <<>>
    /\ queues = [k \in AllKeys |-> <<>>]
    /\ jobs = {}
    /\ nextID = 1
    /\ clientClosed = 0
    /\ ctl = [pc |-> "idle", op |-> "none", ret |-> "none", ws |-> <<>>,
              all |-> <<>>, i |-> 0, calls |-> 0, early |-> FALSE, inv |-> 0]
    /\ ctxDone = FALSE
    /\ pushers = [p \in callers |-> IdlePusher]
    /\ delivered = <<>>
    /\ lenCall = IdleLenCall
    /\ hist = [everClosed |-> FALSE, shutdownOK |-> FALSE, pushCalls |-> 0,
               raw |-> {}, pushed |-> [k \in AllKeys |-> <<>>],
               dropped |-> {}]

Init == InitWith(Pushers)

\* the lifecycle caller at the start of a call: ws is the part of the
\* argument of StartWorkers still to be ranged over and all the whole
\* argument, i counts the closed signals received, inv the pools on which
\* Shutdown was invoked, early records that the context expired before every
\* closed signal was received
NewCall(op) ==
    [pc |-> "idle", op |-> op, ret |-> "none", ws |-> <<>>, all |-> <<>>,
     i |-> 0, calls |-> ctl.calls + 1, early |-> FALSE, inv |-> 0]

\* ------------------------------------------------------- StartWorkers
\* atomic.CompareAndSwapUint32(&b.running, 0, 1)
StartCASBad(r) == TRUE
StartCAS(r) == r = 0

StartWorkers(ws) ==
    /\ ctl.pc = "idle"
    /\ ctl.calls < MaxCalls
    /\ IF StartCAS(running)
       THEN /\ running' = 1
            /\ ctl' = [NewCall("StartWorkers") EXCEPT !.pc = "start", !.ws = ws,
                                                     !.all = ws]
       ELSE /\ running' = running
            /\ ctl' = [NewCall("StartWorkers") EXCEPT !.ret = "ErrClosed"]
    /\ ctxDone' = FALSE
    /\ UNCHANGED <<workers, workersTypes, loops, queues, jobs, nextID,
                   clientClosed, pushers, delivered, hist, lenCall>>

\* a loop body that registers only the types it starts a pool for
StartWorkersIterBad(startOK) ==
    /\ ctl.pc = "start"
    /\ ctl.ws # <<>>
    /\ LET conf == Head(ctl.ws) IN
       IF conf.Concurrency <= 0
       THEN /\ startOK
            /\ ctl' = [ctl EXCEPT !.ws = Tail(@)]
            /\ UNCHANGED <<workers, workersTypes, loops, delivered>>
       ELSE /\ workersTypes' = Append(workersTypes, conf.WorkerType)
            /\ workers' = Append(workers,
                    [WorkerType |-> conf.WorkerType, started |-> startOK,
                     shutdowns |-> 0])
            /\ delivered' = Append(delivered, <<>>)
            /\ IF startOK
               THEN /\ loops' = Append(loops,
                           [key |-> redisPrefix \o conf.WorkerType,
                            ch |-> Len(workers) + 1, pc |-> "head",
                            results |-> <<>>, job |-> NoJob])
                    /\ ctl' = [ctl EXCEPT !.ws = Tail(@)]
               ELSE /\ loops' = loops
                    /\ ctl' = [ctl EXCEPT !.pc = "idle", !.ret = "err",
                                          !.ws = <<>>]
    /\ UNCHANGED <<running, queues, jobs, nextID, clientClosed, ctxDone,
                   pushers, hist, lenCall>>

\* one iteration of `for _, conf := range ws`
StartWorkersIter(startOK) ==
    /\ ctl.pc = "start"
    /\ ctl.ws # <<>>
    /\ LET conf == Head(ctl.ws) IN
       /\ workersTypes' = Append(workersTypes, conf.WorkerType)
       /\ IF conf.Concurrency <= 0
          THEN /\ startOK
               /\ ctl' = [ctl EXCEPT !.ws = Tail(@)]
               /\ UNCHANGED <<workers, loops, delivered>>
          ELSE /\ workers' = Append(workers,
                       [WorkerType |-> conf.WorkerType, started |-> startOK,
                        shutdowns |-> 0])
               /\ delivered' = Append(delivered, <<>>)
               /\ IF startOK
                  THEN /\ loops' = Append(loops,
                              [key |-> redisPrefix \o conf.WorkerType,
                               ch |-> Len(workers) + 1, pc |-> "head",
                               results |-> <<>>, job |-> NoJob])
                       /\ ctl' = [ctl EXCEPT !.ws = Tail(@)]
                  ELSE /\ loops' = loops
                       /\ ctl' = [ctl EXCEPT !.pc = "idle", !.ret = "err",
                                             !.ws = <<>>]
    /\ UNCHANGED <<running, queues, jobs, nextID, clientClosed, ctxDone,
                   pushers, hist, lenCall>>

StartWorkersReturn ==
    /\ ctl.pc = "start"
    /\ ctl.ws = <<>>
    /\ ctl' = [ctl EXCEPT !.pc = "idle", !.ret = "nil"]
    /\ UNCHANGED <<running, workers, workersTypes, loops, queues, jobs,
                   nextID, clientClosed, ctxDone, pushers, delivered, hist,
                   lenCall>>

\* ---------------------------------------------------- ShutdownWorkers
\* atomic.CompareAndSwapUint32(&b.running, 1, 0)
ShutdownCAS(r) == r = 1

ShutdownWorkers(expired) ==
    /\ ctl.pc = "idle"
    /\ ctl.calls < MaxCalls
    /\ IF ~ShutdownCAS(running)
       THEN /\ ctl' = [NewCall("ShutdownWorkers") EXCEPT !.ret = "ErrClosed"]
            /\ ctxDone' = FALSE
            /\ UNCHANGED <<running, hist>>
       ELSE /\ running' = 0
            /\ IF Len(workers) = 0
               THEN /\ ctl' = [NewCall("ShutdownWorkers") EXCEPT !.ret = "nil"]
                    /\ hist' = [hist EXCEPT !.everClosed = TRUE,
                                            !.shutdownOK = TRUE]
                    /\ ctxDone' = FALSE
               ELSE /\ ctl' = [NewCall("ShutdownWorkers") EXCEPT
                                  !.pc = "wait", !.early = expired]
                    /\ hist' = [hist EXCEPT !.everClosed = TRUE]
                    /\ ctxDone' = expired
    /\ UNCHANGED <<workers, workersTypes, loops, queues, jobs, nextID,
                   clientClosed, pushers, delivered, lenCall>>

\* the deadline of the context given to ShutdownWorkers passes
CtxExpire ==
    /\ ctl.pc \in {"wait", "drain"}
    /\ ~ctxDone
    /\ ctxDone' = TRUE
    /\ ctl' = [ctl EXCEPT !.early = (ctl.pc = "wait" /\ ctl.i < Len(workers))]
    /\ UNCHANGED <<running, workers, workersTypes, loops, queues, jobs,
                   nextID, clientClosed, pushers, delivered, hist, lenCall>>

\* number of closed signals ShutdownWorkers waits for
TokensNeededBad(ws) == Len(ws) - 1
TokensNeeded(ws) == Len(ws)

\* select: case <-ctx.Done()
ShutdownCtxDone ==
    /\ ctl.pc = "wait"
    /\ ctl.i < TokensNeeded(workers)
    /\ ctxDone
    /\ ctl' = [ctl EXCEPT !.pc = "idle", !.ret = "ctxErr"]
    /\ clientClosed' = clientClosed + 1
    /\ UNCHANGED <<running, workers, workersTypes, loops, queues, jobs,
                   nextID, ctxDone, pushers, delivered, hist, lenCall>>

\* select: case <-b.closed, a rendezvous with the deferred send of loop l
ShutdownRecv(l) ==
    /\ ctl.pc = "wait"
    /\ ctl.i < TokensNeeded(workers)
    /\ l \in 1..Len(loops)
    /\ loops[l].pc = "closing"
    /\ loops' = [loops EXCEPT ![l].pc = "exited"]
    /\ ctl' = [ctl EXCEPT !.i = @ + 1]
    /\ UNCHANGED <<running, workers, workersTypes, queues, jobs, nextID,
                   clientClosed, ctxDone, pushers, delivered, hist, lenCall>>

\* `go func(w *Worker) { errs <- w.Shutdown(ctx) }(w)` for every pool
ShutdownPools ==
    /\ ctl.pc = "wait"
    /\ ctl.i >= TokensNeeded(workers)
    /\ workers' = [w \in 1..Len(workers) |->
                      [workers[w] EXCEPT !.shutdowns = @ + 1]]
    /\ ctl' = [ctl EXCEPT !.pc = "drain", !.inv = Len(workers)]
    /\ UNCHANGED <<running, workersTypes, loops, queues, jobs, nextID,
                   clientClosed, ctxDone, pushers, delivered, hist, lenCall>>

\* collect the errors of the pools, return, run the deferred client.Close()
ShutdownCollect(poolErr) ==
    /\ ctl.pc = "drain"
    /\ ctl' = [ctl EXCEPT !.pc = "idle",
                          !.ret = IF poolErr THEN "errm" ELSE "nil"]
    /\ hist' = [hist EXCEPT !.shutdownOK = @ \/ ~poolErr]
    /\ clientClosed' = clientClosed + 1
    /\ UNCHANGED <<running, workers, workersTypes, loops, queues, jobs,
                   nextID, ctxDone, pushers, delivered, lenCall>>

\* ------------------------------------------------------------ pollLoop
\* loop head: atomic.LoadUint32(&b.running) == 0 -> return (deferred send)
LoopHead(l) ==
    /\ l \in 1..Len(loops)
    /\ loops[l].pc = "head"
    /\ loops' = [loops EXCEPT ![l].pc =
                    IF running = 0 THEN "closing" ELSE "brpop"]
    /\ UNCHANGED <<running, workers, workersTypes, queues, jobs, nextID,
                   clientClosed, ctl, ctxDone, pushers, delivered, hist,
                   lenCall>>

PopKeysBad(key, draw) == <<key \o redisHighPrioritySuffix, key>>

\* the ordered pair of keys given to BRPop
PopKeys(key, draw) ==
    IF draw = 0 THEN <<key, key \o redisHighPrioritySuffix>>
                ELSE <<key \o redisHighPrioritySuffix, key>>

\* BRPop returns an error, times out, or returns fewer than 2 fields
BRPopErr(l) ==
    /\ l \in 1..Len(loops)
    /\ loops[l].pc = "brpop"
    /\ loops' = [loops EXCEPT ![l].pc = "head"]
    /\ UNCHANGED <<running, workers, workersTypes, queues, jobs, nextID,
                   clientClosed, ctl, ctxDone, pushers, delivered, hist,
                   lenCall>>

\* the checks of the matched key and of the payload that follow BRPop
ValidPopBad(key, val) == Len(SplitN2(val)) = 2

ValidPop(key, val) ==
    /\ ~(Len(key) < Len(redisPrefix))
    /\ Len(SplitN2(val)) = 2

PopSourceBad(qs, ks) == IF qs[ks[2]] # <<>> THEN ks[2] ELSE ks[1]

\* BRPOP serves the first of the listed keys whose list is non-empty
PopSource(qs, ks) == IF qs[ks[1]] # <<>> THEN ks[1] ELSE ks[2]

\* BRPOP takes the element at the right end of the list
PopEndBad(q) == IF q = <<>> THEN 0 ELSE 1
PopEnd(q) == Len(q)

RemoveAtBad(q, i) == q
RemoveAt(q, i) == SubSeq(q, 1, i - 1) \o SubSeq(q, i + 1, Len(q))

\* BRPop pops the right end of the first non-empty key of the pair, then
\* the loop checks the matched key and splits the payload; keyOK = FALSE is
\* a client that reports an empty matched key
BRPopOK(l, draw, keyOK) ==
    /\ l \in 1..Len(loops)
    /\ loops[l].pc = "brpop"
    /\ clientClosed = 0
    /\ LET ks  == PopKeys(loops[l].key, draw)
           k   == PopSource(queues, ks)
           key == IF keyOK THEN k ELSE <<>>
           val == queues[k][PopEnd(queues[k])]
       IN  /\ queues[k] # <<>>
           /\ queues' = [queues EXCEPT ![k] = RemoveAt(@, PopEnd(@))]
           /\ IF ValidPop(key, val)
              THEN /\ loops' = [loops EXCEPT ![l].pc = "get",
                                             ![l].results = <<key, val>>]
                   /\ hist' = hist
              ELSE /\ loops' = [loops EXCEPT ![l].pc = "head"]
                   /\ hist' = [hist EXCEPT !.dropped =
                                  @ \cup {[key |-> k, rkey |-> key, val |-> val]}]
    /\ UNCHANGED <<running, workers, workersTypes, jobs, nextID, clientClosed,
                   ctl, ctxDone, pushers, delivered, lenCall>>

\* job, err := Get(domain, jobID) on the job store as it is now
LoopGet(l) ==
    /\ l \in 1..Len(loops)
    /\ loops[l].pc = "get"
    /\ LET key   == loops[l].results[1]
           val   == loops[l].results[2]
           parts == SplitN2(val)
       IN  IF GetFound(jobs, parts[1], parts[2])
           THEN /\ loops' = [loops EXCEPT
                       ![l].pc = "send",
                       ![l].job = Get(jobs, parts[1], parts[2])]
                /\ hist' = hist
           ELSE /\ loops' = [loops EXCEPT ![l].pc = "head",
                                          ![l].results = <<>>]
                /\ hist' = [hist EXCEPT !.dropped =
                               @ \cup {[key |-> key, rkey |-> key, val |-> val]}]
    /\ UNCHANGED <<running, workers, workersTypes, queues, jobs, nextID,
                   clientClosed, ctl, ctxDone, pushers, delivered, lenCall>>

\* `ch <- job` meets a receive of the pool
PoolReceiving(w) == w.started /\ w.shutdowns = 0

LoopSend(l) ==
    /\ l \in 1..Len(loops)
    /\ loops[l].pc = "send"
    /\ PoolReceiving(workers[loops[l].ch])
    /\ delivered' = [delivered EXCEPT ![loops[l].ch] =
                        Append(@, [job |-> loops[l].job,
                                   key |-> loops[l].results[1],
                                   val |-> loops[l].results[2]])]
    /\ loops' = [loops EXCEPT ![l].pc = "head", ![l].results = <<>>,
                              ![l].job = NoJob]
    /\ UNCHANGED <<running, workers, workersTypes, queues, jobs, nextID,
                   clientClosed, ctl, ctxDone, pushers, hist, lenCall>>

\* ------------------------------------------------------------- PushJob
\* call and first statement: atomic.LoadUint32(&b.running) == 0
PushJob(p, req, max) ==
    /\ p \in DOMAIN pushers
    /\ pushers[p].pc = "idle"
    /\ hist.pushCalls < max
    /\ pushers' = [pushers EXCEPT ![p] =
          IF running = 0
          THEN [IdlePusher EXCEPT !.ret = "ErrClosed"]
          ELSE [IdlePusher EXCEPT !.pc = "types", !.req = req]]
    /\ hist' = [hist EXCEPT !.pushCalls = @ + 1]
    /\ UNCHANGED <<running, workers, workersTypes, loops, queues, jobs,
                   nextID, clientClosed, ctl, ctxDone, delivered, lenCall>>

\* !utils.IsInArray(req.WorkerType, b.workersTypes) -> ErrUnknownWorker
PushJobTypes(p) ==
    /\ p \in DOMAIN pushers
    /\ pushers[p].pc = "types"
    /\ pushers' = [pushers EXCEPT ![p] =
          IF IsInArray(pushers[p].req.WorkerType, workersTypes)
          THEN [@ EXCEPT !.pc = "create"]
          ELSE Return(p, "ErrUnknownWorker")]
    /\ UNCHANGED <<running, workers, workersTypes, loops, queues, jobs,
                   nextID, clientClosed, ctl, ctxDone, delivered, hist,
                   lenCall>>

\* job := NewJob(req); job.Create()
PushJobCreate(p, ok) ==
    /\ p \in DOMAIN pushers
    /\ pushers[p].pc = "create"
    /\ IF ok
       THEN /\ pushers' = [pushers EXCEPT ![p].pc = "lpush",
                              ![p].job = NewJob(pushers[p].req, nextID)]
            /\ jobs' = jobs \cup {NewJob(pushers[p].req, nextID)}
            /\ nextID' = nextID + 1
       ELSE /\ pushers' = [pushers EXCEPT ![p] = Return(p, "err")]
            /\ UNCHANGED <<jobs, nextID>>
    /\ UNCHANGED <<running, workers, workersTypes, loops, queues,
                   clientClosed, ctl, ctxDone, delivered, hist, lenCall>>

\* b.client.LPush(key, val); a closed client fails every command
PushJobLPush(p, ok) ==
    /\ p \in DOMAIN pushers
    /\ pushers[p].pc = "lpush"
    /\ LET job == pushers[p].job
           key == QueueKey(job.WorkerType, job.Manual)
           val == Payload(job)
       IN  IF ok /\ clientClosed = 0
           THEN /\ queues' = [queues EXCEPT ![key] = <<val>> \o @]
                /\ pushers' = [pushers EXCEPT ![p] = Return(p, "ok")]
                /\ hist' = [hist EXCEPT !.pushed[key] = Append(@, val)]
           ELSE /\ pushers' = [pushers EXCEPT ![p] = Return(p, "err")]
                /\ UNCHANGED <<queues, hist>>
    /\ UNCHANGED <<running, workers, workersTypes, loops, jobs, nextID,
                   clientClosed, ctl, ctxDone, delivered, lenCall>>

\* ------------------------------------------------------ WorkerQueueLen
\* b.client.LLen(key).Result() on an open client
LLen(qs, key) == Len(qs[key])

\* l1, err := LLen(key); a closed client fails every command
WorkerQueueLenFirst(workerType, ok) ==
    /\ lenCall.pc = "idle"
    /\ LET key == redisPrefix \o workerType IN
       lenCall' =
          IF ok /\ clientClosed = 0
          THEN [IdleLenCall EXCEPT
                   !.pc = "second", !.t = workerType,
                   !.l1 = LLen(queues, key),
                   !.lanes = <<queues[key],
                               queues[key \o redisHighPrioritySuffix]>>]
          ELSE [IdleLenCall EXCEPT !.t = workerType, !.ret = "err"]
    /\ UNCHANGED <<running, workers, workersTypes, loops, queues, jobs, nextID,
                   clientClosed, ctl, ctxDone, pushers, delivered, hist>>

\* a second step that forgets the high-priority lane
WorkerQueueLenSecondBad(ok) ==
    /\ lenCall.pc = "second"
    /\ LET key == redisPrefix \o lenCall.t IN
       lenCall' =
          IF ok /\ clientClosed = 0
          THEN [IdleLenCall EXCEPT
                   !.t = lenCall.t, !.ret = "ok",
                   !.n = lenCall.l1,
                   !.quiet = (lenCall.lanes =
                                 <<queues[key],
                                   queues[key \o redisHighPrioritySuffix]>>)]
          ELSE [IdleLenCall EXCEPT !.t = lenCall.t, !.ret = "err"]
    /\ UNCHANGED <<running, workers, workersTypes, loops, queues, jobs, nextID,
                   clientClosed, ctl, ctxDone, pushers, delivered, hist>>

\* l2, err := LLen(key + "/p0"); return int(l1 + l2), nil
WorkerQueueLenSecond(ok) ==
    /\ lenCall.pc = "second"
    /\ LET key == redisPrefix \o lenCall.t IN
       lenCall' =
          IF ok /\ clientClosed = 0
          THEN [IdleLenCall EXCEPT
                   !.t = lenCall.t, !.ret = "ok",
                   !.n = lenCall.l1
                            + LLen(queues, key \o redisHighPrioritySuffix),
                   !.quiet = (lenCall.lanes =
                                 <<queues[key],
                                   queues[key \o redisHighPrioritySuffix]>>)]
          ELSE [IdleLenCall EXCEPT !.t = lenCall.t, !.ret = "err"]
    /\ UNCHANGED <<running, workers, workersTypes, loops, queues, jobs, nextID,
                   clientClosed, ctl, ctxDone, pushers, delivered, hist>>

\* ----------------------------------------------------- other processes
\* another user of the store left-pushes a raw payload on "j/t"; `others`
\* is the set of raw payloads that may have been pushed before
RawPush(val, others) ==
    /\ val \notin hist.raw
    /\ hist.raw \subseteq others
    /\ queues' = [queues EXCEPT ![redisPrefix \o WT] = <<val>> \o @]
    /\ hist' = [hist EXCEPT !.raw = @ \cup {val}]
    /\ UNCHANGED <<running, workers, workersTypes, loops, jobs, nextID,
                   clientClosed, ctl, ctxDone, pushers, delivered, lenCall>>

\* another process left-pushes a payload on lane k of the worker type WT as
\* long as the lane is shorter than MaxLaneLen
Refill(k, val) ==
    /\ Len(queues[k]) < MaxLaneLen
    /\ queues' = [queues EXCEPT ![k] = <<val>> \o @]
    /\ UNCHANGED <<running, workers, workersTypes, loops, jobs, nextID,
                   clientClosed, ctl, ctxDone, pushers, delivered, hist,
                   lenCall>>

\* ------------------------------------------------------- specification
Next ==
    \/ \E ws \in WorkersLists : StartWorkers(ws)
    \/ \E startOK \in BOOLEAN : StartWorkersIter(startOK)
    \/ StartWorkersReturn
    \/ \E expired \in BOOLEAN : ShutdownWorkers(expired)
    \/ CtxExpire
    \/ ShutdownCtxDone
    \/ \E l \in 1..Len(loops) : ShutdownRecv(l)
    \/ ShutdownPools
    \/ \E poolErr \in BOOLEAN : ShutdownCollect(poolErr)
    \/ \E l \in 1..Len(loops) : LoopHead(l)
    \/ \E l \in 1..Len(loops) : BRPopErr(l)
    \/ \E l \in 1..Len(loops), draw \in 0..2, keyOK \in BOOLEAN :
           BRPopOK(l, draw, keyOK)
    \/ \E l \in 1..Len(loops) : LoopGet(l)
    \/ \E l \in 1..Len(loops) : LoopSend(l)
    \/ \E p \in Pushers, req \in Requests : PushJob(p, req, MaxPushCalls)
    \/ \E p \in Pushers : PushJobTypes(p)
    \/ \E p \in Pushers, ok \in BOOLEAN : PushJobCreate(p, ok)
    \/ \E p \in Pushers, ok \in BOOLEAN : PushJobLPush(p, ok)
    \/ \E val \in RawPayloads : RawPush(val, {})

Spec == Init /\ [][Next]_vars

\* The broker that is started once and never shut down, with two concurrent
\* PushJob callers asking for the polled worker type. The store answers a pop on a non-empty lane again and
\* again (its errors are transient) and the pool keeps receiving.
InitRun == InitWith(RunPushers)

NextRun ==
    \/ \E ws \in WorkersLists : ctl.calls = 0 /\ StartWorkers(ws)
    \/ \E startOK \in BOOLEAN : StartWorkersIter(startOK)
    \/ StartWorkersReturn
    \/ \E l \in 1..Len(loops) : LoopHead(l)
    \/ \E l \in 1..Len(loops) : BRPopErr(l)
    \/ \E l \in 1..Len(loops), draw \in 0..2, keyOK \in BOOLEAN :
           BRPopOK(l, draw, keyOK)
    \/ \E l \in 1..Len(loops) : LoopGet(l)
    \/ \E l \in 1..Len(loops) : LoopSend(l)
    \/ \E p \in RunPushers, req \in RunRequests :
           PushJob(p, req, MaxRunPushCalls)
    \/ \E p \in RunPushers : PushJobTypes(p)
    \/ \E p \in RunPushers, ok \in BOOLEAN : PushJobCreate(p, ok)
    \/ \E p \in RunPushers, ok \in BOOLEAN : PushJobLPush(p, ok)
    \/ \E val \in RawPayloads : RawPush(val, RawPayloads)

RunFairness ==
    /\ WF_vars(LoopHead(1))
    /\ SF_vars(\E draw \in 0..2, keyOK \in BOOLEAN : BRPopOK(1, draw, keyOK))
    /\ WF_vars(LoopGet(1))
    /\ WF_vars(LoopSend(1))

RunSpec == InitRun /\ [][NextRun]_vars /\ RunFairness

\* The broker started once with two pools of the same worker type and left
\* Running: two poll loops pop the same two lanes concurrently.
NextTwin ==
    \/ ctl.calls = 0 /\ StartWorkers(TwinList)
    \/ \E startOK \in BOOLEAN : StartWorkersIter(startOK)
    \/ StartWorkersReturn
    \/ \E l \in 1..Len(loops) : LoopHead(l)
    \/ \E l \in 1..Len(loops) : BRPopErr(l)
    \/ \E l \in 1..Len(loops), draw \in 0..2, keyOK \in BOOLEAN :
           BRPopOK(l, draw, keyOK)
    \/ \E l \in 1..Len(loops) : LoopGet(l)
    \/ \E l \in 1..Len(loops) : LoopSend(l)
    \/ \E p \in Pushers, req \in Requests : PushJob(p, req, MaxRunPushCalls)
    \/ \E p \in Pushers : PushJobTypes(p)
    \/ \E p \in Pushers, ok \in BOOLEAN : PushJobCreate(p, ok)
    \/ \E p \in Pushers, ok \in BOOLEAN : PushJobLPush(p, ok)
    \/ \E val \in RawPayloads : RawPush(val, {})

TwinSpec == Init /\ [][NextTwin]_vars

\* The broker started once and shut down once. Every blocking pop returns
\* (within redisBRPopTimeout at the latest), a receiving pool takes what is
\* sent to it, and ShutdownWorkers takes a closed signal that is offered while
\* it waits and goes on when it can.
NextStop ==
    \/ \E ws \in WorkersLists : ctl.calls = 0 /\ StartWorkers(ws)
    \/ \E startOK \in BOOLEAN : StartWorkersIter(startOK)
    \/ StartWorkersReturn
    \/ \E expired \in BOOLEAN : ctl.calls = 1 /\ ShutdownWorkers(expired)
    \/ CtxExpire
    \/ ShutdownCtxDone
    \/ \E l \in 1..Len(loops) : ShutdownRecv(l)
    \/ ShutdownPools
    \/ \E poolErr \in BOOLEAN : ShutdownCollect(poolErr)
    \/ \E l \in 1..Len(loops) : LoopHead(l)
    \/ \E l \in 1..Len(loops) : BRPopErr(l)
    \/ \E l \in 1..Len(loops), draw \in 0..2, keyOK \in BOOLEAN :
           BRPopOK(l, draw, keyOK)
    \/ \E l \in 1..Len(loops) : LoopGet(l)
    \/ \E l \in 1..Len(loops) : LoopSend(l)
    \/ \E p \in Pushers, req \in Requests : PushJob(p, req, MaxPushCalls)
    \/ \E p \in Pushers : PushJobTypes(p)
    \/ \E p \in Pushers, ok \in BOOLEAN : PushJobCreate(p, ok)
    \/ \E p \in Pushers, ok \in BOOLEAN : PushJobLPush(p, ok)
    \/ \E val \in RawPayloads : RawPush(val, {})

StopFairness ==
    /\ WF_vars(LoopHead(1))
    /\ WF_vars(BRPopErr(1)
                 \/ \E draw \in 0..2, keyOK \in BOOLEAN : BRPopOK(1, draw, keyOK))
    /\ WF_vars(LoopGet(1))
    /\ WF_vars(LoopSend(1))
    /\ WF_vars(ShutdownRecv(1))
    /\ WF_vars(ShutdownPools)
    /\ WF_vars(\E poolErr \in BOOLEAN : ShutdownCollect(poolErr))

StopSpec == Init /\ [][NextStop]_vars /\ StopFairness

\* The broker started once and shut down once, with a caller of
\* WorkerQueueLen running beside it.
NextLen ==
    \/ NextStop
    \/ \E workerType \in {WT, WU}, ok \in BOOLEAN :
           WorkerQueueLenFirst(workerType, ok)
    \/ \E ok \in BOOLEAN : WorkerQueueLenSecond(ok)

LenSpec == Init /\ [][NextLen]_vars

\* The broker started once and left Running while other processes keep
\* pushing on both lanes of WT. The poll loop draws 0 again and again and
\* draws another number again and again, and the pool keeps receiving.
NextLane ==
    \/ \E ws \in WorkersLists : ctl.calls = 0 /\ StartWorkers(ws)
    \/ \E startOK \in BOOLEAN : StartWorkersIter(startOK)
    \/ StartWorkersReturn
    \/ \E l \in 1..Len(loops) : LoopHead(l)
    \/ \E l \in 1..Len(loops) : BRPopErr(l)
    \/ \E l \in 1..Len(loops), draw \in 0..2 : BRPopOK(l, draw, TRUE)
    \/ \E l \in 1..Len(loops) : LoopGet(l)
    \/ \E l \in 1..Len(loops) : LoopSend(l)
    \/ \E p \in Pushers, req \in RunRequests : PushJob(p, req, MaxPushCalls)
    \/ \E p \in Pushers : PushJobTypes(p)
    \/ \E p \in Pushers, ok \in BOOLEAN : PushJobCreate(p, ok)
    \/ \E p \in Pushers, ok \in BOOLEAN : PushJobLPush(p, ok)
    \/ \E m \in BOOLEAN, val \in RefillPayloads : Refill(QueueKey(WT, m), val)

LaneFairness ==
    /\ WF_vars(LoopHead(1))
    /\ SF_vars(BRPopOK(1, 0, TRUE))
    /\ SF_vars(\E draw \in 1..2 : BRPopOK(1, draw, TRUE))
    /\ WF_vars(LoopGet(1))
    /\ WF_vars(LoopSend(1))

LaneSpec == Init /\ [][NextLane]_vars /\ LaneFairness

\* ================================================================ claims
Registered(workerType) ==
    \E k \in 1..Len(workersTypes) : workersTypes[k] = workerType

LiveLoops == { l \in 1..Len(loops) : loops[l].pc # "exited" }

\* C1: once ShutdownWorkers has closed the broker, no StartWorkers call
\* brings it back to Running: running stays 0 and no StartWorkers body runs.
C1_NoRestart ==
    hist.everClosed => (running = 0 /\ ctl.pc # "start")

\* C2: a StartWorkers call on a Running broker returns ErrClosed and leaves
\* running, the pools, worker_types and the poll loops as they were.
C2_StartOnRunning ==
    [][(/\ ctl.pc = "idle"
        /\ running = 1
        /\ ctl'.calls = ctl.calls + 1
        /\ ctl'.op = "StartWorkers")
       => (/\ ctl'.pc = "idle"
           /\ ctl'.ret = "ErrClosed"
           /\ running' = 1
           /\ UNCHANGED <<workers, workersTypes, loops>>)]_vars

C2_Witness ==
    /\ ctl.pc = "idle" /\ ctl.op = "StartWorkers" /\ ctl.ret = "ErrClosed"
    /\ running = 1
    /\ Len(workers) > 0 /\ LiveLoops # {}

\* C3: a PushJob invoked after a ShutdownWorkers call has returned success
\* returns ErrClosed at once, creating no job and pushing nothing.
C3_PushAfterShutdown ==
    [][\A p \in DOMAIN pushers :
          (hist.shutdownOK /\ pushers[p].pc = "idle" /\ pushers'[p] # pushers[p])
          => (/\ pushers'[p].pc = "idle"
              /\ pushers'[p].ret = "ErrClosed"
              /\ jobs' = jobs
              /\ queues' = queues)]_vars

\* C4: once running has been flipped to 0 by ShutdownWorkers, no step
\* left-pushes a PushJob payload and no step delivers a job on a feed channel.
C4_NothingAfterClosed ==
    [][(hist.everClosed /\ running = 0)
       => (hist'.pushed = hist.pushed /\ delivered' = delivered)]_vars

\* C5: on a Running broker, the type check of a PushJob whose worker type is
\* not registered returns ErrUnknownWorker, persists no job and leaves every
\* lane unchanged; no call gets past the check with an unregistered type.
C5_UnknownWorker ==
    /\ [](\A p \in DOMAIN pushers :
             pushers[p].pc \in {"create", "lpush"}
                 => Registered(pushers[p].req.WorkerType))
    /\ [][\A p \in DOMAIN pushers :
             (/\ pushers[p].pc = "types"
              /\ pushers'[p] # pushers[p]
              /\ ~Registered(pushers[p].req.WorkerType))
             => (/\ pushers'[p].pc = "idle"
                 /\ pushers'[p].ret = "ErrUnknownWorker"
                 /\ jobs' = jobs
                 /\ queues' = queues)]_vars

C5_Witness ==
    /\ running = 1
    /\ Len(workersTypes) > 0
    /\ \E p \in DOMAIN pushers : pushers[p].ret = "ErrUnknownWorker"

\* C6: a step of ShutdownWorkers that invokes Shutdown on a pool is taken
\* only after it has received as many closed signals as there are pools,
\* and every poll loop has then left its loop.
C6_TwoPhase ==
    [][(\E w \in 1..Len(workers) : workers'[w].shutdowns > workers[w].shutdowns)
       => (/\ ctl.pc = "wait"
           /\ ctl.i = Len(workers)
           /\ \A l \in 1..Len(loops) : loops[l].pc = "exited")]_vars

C6_Witness ==
    /\ ctl.pc = "drain"
    /\ Len(workers) >= 2
    /\ Len(loops) >= 2
    /\ ctl.i = Len(workers)
    /\ \A w \in 1..Len(workers) : workers[w].shutdowns > 0

\* C7: when the context expires before every closed signal has been
\* received, ShutdownWorkers does not go on to the pool drain and returns
\* the context error. The select of ShutdownWorkers has no priority between
\* its cases: ShutdownRecv stays enabled beside ShutdownCtxDone.
C7_CtxExpiredEarly ==
    (ctl.op = "ShutdownWorkers" /\ ctl.early)
        => (/\ ctl.pc # "drain"
            /\ ctl.inv = 0
            /\ (ctl.pc = "idle" => ctl.ret = "ctxErr"))

\* C8: whenever the broker is Running and no StartWorkers is in progress,
\* the number of live poll loops equals the number of pools.
C8_LoopsEqualPools ==
    (running = 1 /\ ctl.pc = "idle")
        => Cardinality(LiveLoops) = Len(workers)

\* ------------------------------------------------------ delivery claims
SoleLoop(l) ==
    \A m \in 1..Len(loops) : loops[m].key = loops[l].key => m = l

Lanes(l) == { loops[l].key, loops[l].key \o redisHighPrioritySuffix }

NoDrop(l) == \A d \in hist.dropped : d.key \notin Lanes(l)

\* the payloads received by pool w that were popped from key k, in order
FromLane(w, k) ==
    LET ds == SelectSeq(delivered[w], LAMBDA d : d.key = k)
    IN  [n \in 1..Len(ds) |-> ds[n].val]

IsPrefix(a, b) == Len(a) <= Len(b) /\ SubSeq(b, 1, Len(a)) = a

C9_Order ==
    \A l \in 1..Len(loops) :
        (SoleLoop(l) /\ NoDrop(l))
            => \A k \in Lanes(l) : IsPrefix(FromLane(loops[l].ch, k), hist.pushed[k])

C9_AllDelivered ==
    \A l \in 1..Len(loops) :
        (SoleLoop(l) /\ NoDrop(l))
            => /\ \A k \in Lanes(l) : FromLane(loops[l].ch, k) = hist.pushed[k]
               /\ Len(delivered[loops[l].ch]) =
                      Len(hist.pushed[loops[l].key])
                      + Len(hist.pushed[loops[l].key \o redisHighPrioritySuffix])

\* C9: for a worker type served by one poll loop of a broker that stays
\* Running, with a pool that keeps receiving and no payload dropped, the jobs
\* delivered from each lane are at every moment a prefix of the pushes to that
\* lane, in push order, and eventually the N pushed jobs are exactly the jobs
\* delivered.
C9_Delivery == []C9_Order /\ <>[]C9_AllDelivered

C9_Witness ==
    /\ Len(loops) = 1
    /\ hist.dropped = {}
    /\ Len(hist.pushed[loops[1].key]) = 2
    /\ Len(delivered[loops[1].ch]) = 2

HasSlash(val) == \E n \in 1..Len(val) : val[n] = "/"

\* a delivery that is backed by a well-formed pop: a matched key at least as
\* long as the prefix and a payload "<domain>/<job_id>" naming a stored job
WellFormed(d) ==
    /\ Len(d.key) >= Len(redisPrefix)
    /\ HasSlash(d.val)
    /\ d.job \in jobs
    /\ d.job.Domain \o <<"/">> \o d.job.JobID = d.val

Poisoned(d) ==
    \/ Len(d.rkey) < Len(redisPrefix)
    \/ ~HasSlash(d.val)
    \/ \A j \in jobs : j.Domain \o <<"/">> \o j.JobID # d.val

C10_NeverSent ==
    /\ \A w \in 1..Len(delivered) : \A n \in 1..Len(delivered[w]) :
           WellFormed(delivered[w][n])
    /\ \A l \in 1..Len(loops) :
           loops[l].pc = "send"
               => WellFormed([job |-> loops[l].job, key |-> loops[l].results[1],
                              val |-> loops[l].results[2]])
    /\ \A d \in hist.dropped : Poisoned(d)

\* a poll loop that goes back to its loop head after a pop or after the
\* lookup of the job has dropped the payload: nothing is delivered and no
\* list grows
C10_NoRequeue ==
    \A l \in 1..Len(loops) :
        (\/ loops[l].pc = "brpop" /\ loops'[l].pc = "head" /\ queues' # queues
         \/ loops[l].pc = "get" /\ loops'[l].pc = "head")
            => /\ delivered' = delivered
               /\ \A k \in AllKeys : Len(queues'[k]) < Len(queues[k])
                                        \/ queues'[k] = queues[k]

\* every payload pushed by PushJob on a polled lane has been delivered, or
\* was popped by a client reporting a short matched key
C10_Flowed ==
    \A l \in 1..Len(loops) : \A k \in Lanes(l) :
        \A n \in 1..Len(hist.pushed[k]) :
            \/ \E m \in 1..Len(delivered[loops[l].ch]) :
                   /\ delivered[loops[l].ch][m].val = hist.pushed[k][n]
                   /\ delivered[loops[l].ch][m].key = k
            \/ \E d \in hist.dropped :
                   d.val = hist.pushed[k][n] /\ Len(d.rkey) < Len(redisPrefix)

\* C10: a popped payload with no "/", naming an unknown job, or reported
\* with a matched key shorter than the prefix is never sent on a feed channel
\* and never pushed back; the poll loop goes on and the well-formed payloads
\* are eventually delivered.
C10_Poison ==
    /\ []C10_NeverSent
    /\ [][C10_NoRequeue]_vars
    /\ <>[]C10_Flowed

C10_Witness ==
    /\ \E d \in hist.dropped : ~HasSlash(d.val)
    /\ \E d \in hist.dropped : HasSlash(d.val) /\ Len(d.rkey) >= Len(redisPrefix)
    /\ \E d \in hist.dropped : Len(d.rkey) < Len(redisPrefix)
    /\ Len(delivered) = 1 /\ Len(delivered[1]) >= 1

\* ------------------------------------------------- client and PushJob
\* a step on which a ShutdownWorkers call that flipped running to 0 returns
ShutdownReturns ==
    /\ ctl'.op = "ShutdownWorkers"
    /\ ctl'.pc = "idle"
    /\ ctl'.ret # "ErrClosed"
    /\ \/ ctl.pc \in {"wait", "drain"}
       \/ ctl.pc = "idle" /\ ctl'.calls = ctl.calls + 1

\* C13: every ShutdownWorkers call that moves the broker from Running to
\* Closed closes the queue client exactly once, whatever it returns and
\* whatever the number of pools, and no other step closes the client.
C13_CloseOnce ==
    [][/\ ShutdownReturns => clientClosed' = clientClosed + 1
       /\ clientClosed' # clientClosed => ShutdownReturns]_vars

\* the key and the payload a request must be queued with
LaneOf(req) ==
    IF req.Manual THEN <<"j", "/">> \o req.WorkerType \o <<"/", "p", "0">>
                  ELSE <<"j", "/">> \o req.WorkerType

\* C14: the step on which a PushJob returns a Job has the job persisted and
\* left-pushes the one payload "<domain>/<job_id>" on "j/<worker_type>/p0"
\* for a manual request, on "j/<worker_type>" otherwise; every other key is
\* left as it was.
C14_PushOne ==
    [][\A p \in DOMAIN pushers :
          (pushers[p].pc = "lpush" /\ pushers'[p].pc = "idle"
              /\ pushers'[p].ret = "ok")
          => LET job == pushers[p].job
                 req == pushers[p].req
             IN  /\ job \in jobs'
                 /\ job.WorkerType = req.WorkerType
                 /\ job.Domain = req.Domain
                 /\ job.Manual = req.Manual
                 /\ queues'[LaneOf(req)] =
                        <<req.Domain \o <<"/">> \o job.JobID>>
                            \o queues[LaneOf(req)]
                 /\ \A k \in AllKeys \ {LaneOf(req)} :
                        queues'[k] = queues[k]]_vars

C14_Witness ==
    /\ \E p \in DOMAIN pushers : pushers[p].ret = "ok"
    /\ \E k \in AllKeys :
          /\ Len(k) > Len(redisPrefix \o WT)
          /\ Len(hist.pushed[k]) = 1
          /\ queues[k] = hist.pushed[k]

\* ------------------------------------------------------ concurrency 0
StartedOK == ctl.op = "StartWorkers" /\ ctl.pc = "idle" /\ ctl.ret = "nil"

HasPool(workerType) ==
    \E w \in 1..Len(workers) : workers[w].WorkerType = workerType

HasLoop(workerType) ==
    \E l \in 1..Len(loops) : loops[l].key = <<"j", "/">> \o workerType

\* the worker types that some StartWorkers argument declares with no slot
ZeroTypes ==
    UNION { { ws[n].WorkerType :
                n \in { m \in 1..Len(ws) : ws[m].Concurrency <= 0 } } :
            ws \in WorkersLists }

RECURSIVE Reverse(_)
Reverse(q) == IF q = <<>> THEN <<>> ELSE Append(Reverse(Tail(q)), Head(q))

C15_Registered ==
    StartedOK =>
        /\ \A n \in 1..Len(ctl.all) :
              /\ Registered(ctl.all[n].WorkerType)
              /\ ctl.all[n].Concurrency > 0 <=> HasPool(ctl.all[n].WorkerType)
              /\ ctl.all[n].Concurrency > 0 <=> HasLoop(ctl.all[n].WorkerType)
        /\ ~hist.everClosed =>
              /\ Len(workers) = Cardinality({ n \in 1..Len(ctl.all) :
                                                ctl.all[n].Concurrency > 0 })
              /\ Len(loops) = Len(workers)

C15_Kept ==
    \A t \in ZeroTypes :
        /\ ~HasPool(t) /\ ~HasLoop(t)
        /\ \A k \in { <<"j", "/">> \o t, <<"j", "/">> \o t \o <<"/", "p", "0">> } :
              /\ queues[k] = Reverse(hist.pushed[k])
              /\ \A w \in 1..Len(delivered) : FromLane(w, k) = <<>>

C15_Accepted ==
    \A p \in DOMAIN pushers :
        (/\ pushers[p].pc = "types"
         /\ pushers'[p] # pushers[p]
         /\ Registered(pushers[p].req.WorkerType))
        => pushers'[p].pc = "create"

\* C15: after a StartWorkers(ws) that returns nil every name of ws is in
\* workersTypes, those of concurrency 0 included, and a pool and a poll loop
\* exist for exactly the configurations of concurrency > 0; a PushJob for a
\* registered type passes the type check whatever its concurrency, and what
\* it queues on the lanes of a type of concurrency 0 stays there.
C15_ZeroConcurrency ==
    /\ []C15_Registered
    /\ []C15_Kept
    /\ [][C15_Accepted]_vars

C15_Witness ==
    /\ StartedOK
    /\ Len(ctl.all) = 2
    /\ \E p \in DOMAIN pushers : pushers[p].ret = "ok"
    /\ \E t \in ZeroTypes : queues[<<"j", "/">> \o t] # <<>>

\* ------------------------------------------------------- lane choice
\* the step is a successful pop of poll loop l
Pops(l) ==
    /\ loops[l].pc = "brpop"
    /\ loops'[l].pc \in {"get", "head"}
    /\ queues' # queues

Front(q) == SubSeq(q, 1, Len(q) - 1)

\* the pair of keys and the key served that the claim states for a draw
StatedPair(key, draw) ==
    IF draw = 0 THEN <<key, key \o <<"/", "p", "0">>>>
                ELSE <<key \o <<"/", "p", "0">>, key>>

StatedSource(key, draw) ==
    LET first  == StatedPair(key, draw)[1]
        second == StatedPair(key, draw)[2]
    IN  IF queues[first] # <<>> THEN first ELSE second

C17_Pair ==
    \A l \in 1..Len(loops) : \A draw \in 0..2 :
        /\ PopKeys(loops[l].key, draw) = StatedPair(loops[l].key, draw)
        /\ PopSource(queues, PopKeys(loops[l].key, draw))
               = StatedSource(loops[l].key, draw)

C17_First ==
    \A l \in 1..Len(loops) :
        Pops(l) =>
            \E draw \in 0..2 :
                LET src == StatedSource(loops[l].key, draw)
                IN  /\ queues[src] # <<>>
                    /\ queues'[src] = Front(queues[src])
                    /\ \A k \in AllKeys \ {src} : queues'[k] = queues[k]
                    /\ loops'[l].pc = "get" =>
                           loops'[l].results =
                               <<src, queues[src][Len(queues[src])]>>

\* C17: the blocking pop of a poll-loop iteration is over the pair (manual
\* lane, normal lane), or (normal lane, manual lane) when the draw is 0; the
\* key served is the first key of the pair when that lane is non-empty and
\* the second key only when the first is empty, and a pop takes the right
\* end of the key served for one of the draws and touches no other key.
C17_LaneChoice == []C17_Pair /\ [][C17_First]_vars

\* the poll loop holds a job popped from the manual lane while the normal
\* lane is non-empty
C17_Witness ==
    \E l \in 1..Len(loops) :
        /\ loops[l].pc = "send"
        /\ loops[l].results[1] = loops[l].key \o redisHighPrioritySuffix
        /\ queues[loops[l].key] # <<>>

\* ---------------------------------------------------- concurrent loops
RECURSIVE Count(_, _)
Count(q, v) ==
    IF q = <<>> THEN 0
    ELSE (IF Head(q) = v THEN 1 ELSE 0) + Count(Tail(q), v)

RECURSIVE SumOver(_, _)
SumOver(S, f) ==
    IF S = {} THEN 0
    ELSE LET x == CHOOSE y \in S : TRUE IN f[x] + SumOver(S \ {x}, f)

\* every payload ever left-pushed, by PushJob or by another process
AllPushed ==
    hist.raw \cup UNION { { hist.pushed[k][n] : n \in 1..Len(hist.pushed[k]) } :
                          k \in AllKeys }

Queued(v) == SumOver(AllKeys, [k \in AllKeys |-> Count(queues[k], v)])

\* the poll loops that have popped v and not yet sent it
Holding(v) ==
    { l \in 1..Len(loops) :
        loops[l].pc \in {"get", "send"} /\ loops[l].results[2] = v }

\* the receptions of v on the feed channels
Sent(v) ==
    { wn \in UNION { {w} \X (1..Len(delivered[w])) : w \in 1..Len(delivered) } :
        delivered[wn[1]][wn[2]].val = v }

C18_Once ==
    \A v \in AllPushed :
        /\ Cardinality(Holding(v)) + Cardinality(Sent(v)) <= 1
        /\ Queued(v) + Cardinality(Holding(v)) + Cardinality(Sent(v))
               + Cardinality({ d \in hist.dropped : d.val = v }) = 1

C18_RightPool ==
    \A w \in 1..Len(delivered) : \A n \in 1..Len(delivered[w]) :
        \E m \in BOOLEAN :
           LET lane == IF m THEN <<"j", "/">> \o workers[w].WorkerType
                                     \o <<"/", "p", "0">>
                            ELSE <<"j", "/">> \o workers[w].WorkerType
           IN  Count(hist.pushed[lane], delivered[w][n].val) = 1

\* C18: with several poll loops on the lanes of one worker type, a queued
\* payload is popped by at most one of them and its job is received on at
\* most one feed channel, at most once; a payload is only received by a pool
\* of the worker type on whose lanes it was pushed.
C18_AtMostOnce == C18_Once /\ C18_RightPool

\* two loops on the same lanes: the first holds a popped job, the pool of
\* the second has received another one, and a payload was dropped
C18_Witness ==
    /\ Len(loops) = 2
    /\ loops[1].key = loops[2].key
    /\ Cardinality(hist.dropped) >= 1
    /\ loops[1].pc = "send"
    /\ Len(delivered[2]) = 1

\* -------------------------------------------------------- queue length
LanesOf(t) == { <<"j", "/">> \o t, <<"j", "/">> \o t \o <<"/", "p", "0">> }

\* the left-pushes on the lanes of t, by PushJob and by other processes
PushesTo(t) ==
    SumOver(LanesOf(t), [k \in LanesOf(t) |-> Len(hist.pushed[k])])
        + (IF <<"j", "/">> \o WT \in LanesOf(t) THEN Cardinality(hist.raw) ELSE 0)

\* the jobs received on the feed channels of the pools of t
DeliveredTo(t) ==
    LET P == { w \in 1..Len(workers) : workers[w].WorkerType = t }
    IN  SumOver(P, [w \in P |-> Len(delivered[w])])

\* the payloads popped from the lanes of t and not yet sent
InFlight(t) ==
    Cardinality({ l \in 1..Len(loops) :
                    /\ loops[l].pc \in {"get", "send"}
                    /\ loops[l].key = <<"j", "/">> \o t })

DroppedFrom(t) == Cardinality({ d \in hist.dropped : d.key \in LanesOf(t) })

\* the sum of the lengths of the two lanes of t
LanesLen(t) ==
    Len(queues[<<"j", "/">> \o t])
        + Len(queues[<<"j", "/">> \o t \o <<"/", "p", "0">>])

\* the step on which a WorkerQueueLen call returns
LenReturns == lenCall'.pc = "idle" /\ lenCall' # lenCall

\* C12 as stated: what WorkerQueueLen(t) returns is the number of pushes on
\* the lanes of t minus the jobs delivered to its feed channel minus the
\* payloads popped and not yet delivered.
C12_QueueLenStated ==
    [][LenReturns =>
          lenCall'.n = PushesTo(lenCall'.t) - DeliveredTo(lenCall'.t)
                          - InFlight(lenCall'.t)]_vars

C12_Lanes ==
    \A t \in {WT, WU, WX} :
        LanesLen(t) =
            PushesTo(t) - DeliveredTo(t) - InFlight(t) - DroppedFrom(t)

C12_Call ==
    LenReturns =>
        IF lenCall'.ret = "ok"
        THEN lenCall'.quiet =>
                lenCall'.n = PushesTo(lenCall'.t) - DeliveredTo(lenCall'.t)
                                - InFlight(lenCall'.t) - DroppedFrom(lenCall'.t)
        ELSE lenCall'.n = 0 /\ lenCall'.ret = "err"

\* C12 amended: in every reachable state the sum of the lengths of the two
\* lanes of a worker type is the number of pushes on them minus the jobs
\* delivered to its feed channels, minus the payloads popped and not yet
\* delivered, minus the payloads popped and dropped by the poll loop; a
\* WorkerQueueLen call returns that number when both its LLen succeed and
\* the lanes do not change between them, and 0 with the error otherwise.
C12_QueueLen == []C12_Lanes /\ [][C12_Call]_vars

C12_Witness ==
    /\ lenCall.ret = "ok" /\ lenCall.quiet
    /\ lenCall.n = 2
    /\ DroppedFrom(lenCall.t) = 1
    /\ DeliveredTo(lenCall.t) = 0

\* ---------------------------------------------------------- starvation
BothLanesFull ==
    \A l \in 1..Len(loops) : \A k \in Lanes(l) : queues[k] # <<>>

\* the step is a pop of some poll loop from key k
PopFrom(k) ==
    /\ \E l \in 1..Len(loops) : Pops(l)
    /\ Len(queues'[k]) < Len(queues[k])

\* C11: on a run where the broker stays Running, the pool keeps receiving,
\* the swap draw is taken fairly and both lanes of the polled worker type
\* are non-empty from some moment on, the poll loop pops from the normal lane
\* infinitely often and from the manual lane infinitely often.
C11_NoStarvation ==
    (<>[](Len(loops) > 0 /\ BothLanesFull))
        => /\ []<><<PopFrom(<<"j", "/">> \o WT)>>_vars
           /\ []<><<PopFrom(<<"j", "/">> \o WT \o <<"/", "p", "0">>)>>_vars

\* both lanes are non-empty and each has been popped while listed first
C11_Witness ==
    /\ Len(loops) = 1
    /\ BothLanesFull
    /\ \E d \in hist.dropped : d.key = loops[1].key
    /\ \E d \in hist.dropped : d.key = loops[1].key \o redisHighPrioritySuffix
    /\ Len(delivered[1]) = 1

\* --------------------------------------------------------- termination
\* C16: once the broker is Closed, every poll loop eventually sees running
\* = 0 at its loop head, leaves the loop and completes the send of its one
\* token on b.closed.
C16_LoopsExit ==
    [](hist.everClosed
          => <>(\A l \in 1..Len(loops) : loops[l].pc = "exited"))

\* ------------------------------------------------------ PushJob errors
\* C19: a PushJob that returns an error leaves the system as it was before
\* the call: every persisted job is the job of a PushJob still in progress
\* or has had its payload left-pushed on a queue.
C19_NoOrphan ==
    \A j \in jobs :
        \/ \E p \in DOMAIN pushers :
               pushers[p].pc = "lpush" /\ pushers[p].job = j
        \/ \E k \in AllKeys : \E n \in 1..Len(hist.pushed[k]) :
               hist.pushed[k][n] = j.Domain \o <<"/">> \o j.JobID

\* C20: a PushJob that runs while StartWorkers(ws) is running or after it
\* never returns ErrUnknownWorker for a worker type declared in ws.
C20_DeclaredKnown ==
    [][\A p \in DOMAIN pushers :
          (/\ pushers[p].pc = "types"
           /\ pushers'[p].pc = "idle"
           /\ pushers'[p].ret = "ErrUnknownWorker")
          => ~(/\ ctl.op = "StartWorkers"
               /\ \E n \in 1..Len(ctl.all) :
                      ctl.all[n].WorkerType = pushers[p].req.WorkerType)]_vars

TypeOK ==
    /\ running \in {0, 1}
    /\ Len(delivered) = Len(workers)
    /\ \A l \in 1..Len(loops) : loops[l].ch \in 1..Len(workers)
    /\ lenCall.pc \in {"idle", "second"}
    /\ lenCall.ret \in {"none", "ok", "err"}
====
